---- MODULE Spec2Model ----
(***************************************************************************)
(* Cell simulation: the grid of bots, the per-bot instruction interpreter  *)
(* (Bot::update) and the in-place scan of the grid (Simulation::update).   *)
(*                                                                         *)
(* Energies are f32 in the source; here they are integers counting         *)
(* hundredths (5.0 is 500, 0.1 is 10), which keeps every constant of       *)
(* config.rs exact.                                                        *)
(***************************************************************************)
EXTENDS Integers, Sequences, FiniteSets, TLC

VARIABLES
    map,                        \* Simulation.map : map[x][y] is a Bot
    iterations,                 \* Simulation.iterations
    paused,                     \* Simulation.paused
    selected_bot_coordinates,   \* Simulation.selected_bot_coordinates (None or <<x, y>>)
    selected_bot,               \* Simulation.selected_bot (NoBot, or <<bot>> for Some(bot))
    pc,                         \* where the simulation thread is: "idle", "scan", "done"
    sx, sy,                     \* loop indices x, y of Simulation::update
    executed,                   \* history: executed[x][y], for the bot now stored at (x, y): was it alive when
                                \* this tick started (started), and the instructions it ran in this tick (count)
    last,                       \* history: the last call of Bot::update (bot and faced cell, before and after),
                                \* forgotten when the host sets a cell
    mutations,                  \* history: number of offspring mutated so far
    injections,                 \* history: number of cells the host has set so far
    target_tps,                 \* Simulation.target_tps (None or a rate)
    simulation_data_cache,      \* Simulation.simulation_data_cache : the SimulationData sent next
    sync_channel,               \* the sync_channel(1) of SimulationData: a sequence of at most one
    data,                       \* SimulationThreadHandle.data : the SimulationData the host holds
    commands,                   \* history: number of reset, select and target rate commands received
    set_bot_trigger,            \* the channel of set_cell messages <<x, y, bot>>, host to thread
    host,                       \* the host's main thread: "running" or "panicked"
    command_rx,                 \* SimulationRunner.rx : the channel of Cmd, host to runner, oldest first
    sent,                       \* history: the commands the host has sent, in order
    applied,                    \* history: the commands handle_commands has applied, in order
    applied_at,                 \* history: iterations just after the last command was applied
    skipped                     \* history: a loop iteration found command_rx empty since then

\* the simulation data channel and what is on either side of it
\* the command channel of the runner and its history
runnervars == <<command_rx, sent, applied, applied_at, skipped>>

threadvars == <<target_tps, simulation_data_cache, sync_channel, data, commands,
                set_bot_trigger, host, runnervars>>

vars == <<map, iterations, paused, selected_bot_coordinates, selected_bot,
          pc, sx, sy, executed, last, mutations, injections, threadvars>>

-----------------------------------------------------------------------------
(* Bounds of the model *)

Width == 2            \* grid width  (the program runs 160)
Height == 2           \* grid height (the program runs 90)
GENOME_LENGTH == 2    \* genes per genome (the program runs 32)
CELL_MAX_AGE == 1     \* maximum age (the program runs 2048)
MaxIter == 2          \* ticks explored
MaxBots == 2          \* alive cells in a generated grid
MaxMutations == 1     \* offspring whose mutation roll succeeds
MaxInjections == 1    \* cells set by the host
MaxCommands == 1      \* reset, set cell, select and rate commands the thread receives

(* Program constants, in hundredths of an energy unit *)

START_ENERGY == 500
REPRODUCTION_REQUIRED_ENERGY == 1600
PHOTOSYNTHESIS_ENERGY == 125
ATTACK_ENERGY == PHOTOSYNTHESIS_ENERGY * 4
MOVEMENT_COST == 100
TURN_COST == MOVEMENT_COST \div 2
ATTACK_REQUIRED_ENERGY == MOVEMENT_COST * 2
NOOP_COST == 10

None == "None"

\* Option<Bot>: None is the empty sequence and Some(bot) is <<bot>>
NoBot == <<>>

Some(bot) == <<bot>>

-----------------------------------------------------------------------------
(* Types *)

Instruction ==
    {"Noop", "TurnLeft", "TurnRight", "MoveForwards", "Photosynthesis",
     "GiveEnergy", "AttackCell", "RecycleDeadCell", "CheckEnergy",
     "CheckIfDirectedLeft", "CheckIfDirectedRight", "CheckIfDirectedUp",
     "CheckIfDirectedDown", "CheckIfFacingAliveCell", "CheckIfFacingDeadCell",
     "CheckIfFacingVoid", "CheckIfFacingRelative", "MakeChild"}

Direction == {"Left", "Right", "Up", "Down"}

ThingToMutate == {"Instruction", "Option", "Energy", "Branch", "BranchAlt"}

GeneIndex == 0 .. (GENOME_LENGTH - 1)

GeneDefault ==
    [instruction |-> "Noop", option |-> FALSE, energy |-> 0,
     branch |-> 0, branch_alt |-> 0]

BLACK == <<0, 0, 0>>

BotDefault ==
    [alive |-> FALSE, empty |-> TRUE, x |-> 0, y |-> 0, energy |-> 0,
     direction |-> "Left", age |-> 0, color |-> BLACK,
     genome |-> [i \in GeneIndex |-> GeneDefault],
     current_instruction |-> 0]

new_empty(x, y) == [BotDefault EXCEPT !.x = x, !.y = y]

new_random(x, y, genome, direction, color) ==
    [alive |-> TRUE, empty |-> FALSE, x |-> x, y |-> y,
     energy |-> START_ENERGY, direction |-> direction, age |-> 0,
     color |-> color, genome |-> genome, current_instruction |-> 0]

\* coordinates with x and y exchanged
coordinates_Swapped(bot) == <<bot.y, bot.x>>

\* coordinates that do not follow the bot
coordinates_Fixed(bot) == <<0, 0>>

coordinates(bot) == <<bot.x, bot.y>>

should_update(bot) == bot.alive

current_instruction(bot) == bot.genome[bot.current_instruction]

\* a test that takes every cell that is not alive for a corpse
is_dead_NotAlive(bot) == ~bot.alive

is_dead(bot) == ~bot.alive /\ ~bot.empty

-----------------------------------------------------------------------------
(* Direction *)

\* a step that goes nowhere when the direction is Up
apply_direction_UpStays(d, x, y) ==
    CASE d = "Left"  -> IF x = 0 THEN <<Width - 1, y>> ELSE <<x - 1, y>>
      [] d = "Right" -> IF x = Width - 1 THEN <<0, y>> ELSE <<x + 1, y>>
      [] d = "Up"    -> <<x, y>>
      [] d = "Down"  -> IF y = Height - 1 THEN <<x, 0>> ELSE <<x, y + 1>>

\* a step that stops at the border instead of wrapping
apply_direction_NoWrap(d, x, y) ==
    CASE d = "Left"  -> IF x = 0 THEN <<x, y>> ELSE <<x - 1, y>>
      [] d = "Right" -> IF x = Width - 1 THEN <<x, y>> ELSE <<x + 1, y>>
      [] d = "Up"    -> IF y = 0 THEN <<x, y>> ELSE <<x, y - 1>>
      [] d = "Down"  -> IF y = Height - 1 THEN <<x, y>> ELSE <<x, y + 1>>

apply_direction(d, x, y) ==
    CASE d = "Left"  -> IF x = 0 THEN <<Width - 1, y>> ELSE <<x - 1, y>>
      [] d = "Right" -> IF x = Width - 1 THEN <<0, y>> ELSE <<x + 1, y>>
      [] d = "Up"    -> IF y = 0 THEN <<x, Height - 1>> ELSE <<x, y - 1>>
      [] d = "Down"  -> IF y = Height - 1 THEN <<x, 0>> ELSE <<x, y + 1>>

\* a left turn that turns the way right() does
left_Clockwise(d) ==
    CASE d = "Left"  -> "Up"
      [] d = "Up"    -> "Right"
      [] d = "Right" -> "Down"
      [] d = "Down"  -> "Left"

left(d) ==
    CASE d = "Down"  -> "Right"
      [] d = "Right" -> "Up"
      [] d = "Up"    -> "Left"
      [] d = "Left"  -> "Down"

right(d) ==
    CASE d = "Left"  -> "Up"
      [] d = "Up"    -> "Right"
      [] d = "Right" -> "Down"
      [] d = "Down"  -> "Left"

-----------------------------------------------------------------------------
(* Map *)

\* a read that consults the copy of the grid made for the host
MapGet_Copy(m, x, y) == simulation_data_cache.map[x][y]

MapGet(m, x, y) == m[x][y]

MapSet(m, x, y, cell) == [m EXCEPT ![x][y] = cell]

-----------------------------------------------------------------------------
(* Gene::mutate and Color::mutate.  A draw is the outcome of the random     *)
(* choices of one reproduction.                                            *)

\* the draws of Gene::mutate: the field and its new value (one value per field)
FieldDraws ==
    {[thing |-> "Instruction", value |-> "MoveForwards"],
     [thing |-> "Option", value |-> TRUE],
     [thing |-> "Energy", value |-> 2000],
     [thing |-> "Branch", value |-> GENOME_LENGTH - 1],
     [thing |-> "BranchAlt", value |-> 0]}

\* the draws of Color::mutate: <<channel, delta>>, delta in [-16, 16]
ColorDraws == {<<1, 16>>, <<2, -16>>}

NoMutation ==
    [roll |-> FALSE, gene_to_mutate |-> 0,
     field |-> [thing |-> "Option", value |-> FALSE], channel |-> 1, delta |-> 16]

\* draws whose gene index ranges over the whole genome
MutationDraws_AnyGene ==
    {[roll |-> TRUE, gene_to_mutate |-> i, field |-> f,
      channel |-> c[1], delta |-> c[2]] :
        i \in GeneIndex, f \in FieldDraws, c \in ColorDraws}

MutationDraws ==
    {[roll |-> TRUE, gene_to_mutate |-> i, field |-> f,
      channel |-> c[1], delta |-> c[2]] :
        i \in 0 .. (GENOME_LENGTH - 2), f \in FieldDraws, c \in ColorDraws}

\* a mutation that resamples the option along with the drawn field
mutate_TwoFields(gene, field) ==
    CASE field.thing = "Instruction" ->
            [gene EXCEPT !.instruction = field.value, !.option = ~@]
      [] field.thing = "Option"      -> [gene EXCEPT !.option = field.value]
      [] field.thing = "Energy"      -> [gene EXCEPT !.energy = field.value, !.option = ~@]
      [] field.thing = "Branch"      -> [gene EXCEPT !.branch = field.value, !.option = ~@]
      [] field.thing = "BranchAlt"   ->
            [gene EXCEPT !.branch_alt = field.value, !.option = ~@]

mutate(gene, field) ==
    CASE field.thing = "Instruction" -> [gene EXCEPT !.instruction = field.value]
      [] field.thing = "Option"      -> [gene EXCEPT !.option = field.value]
      [] field.thing = "Energy"      -> [gene EXCEPT !.energy = field.value]
      [] field.thing = "Branch"      -> [gene EXCEPT !.branch = field.value]
      [] field.thing = "BranchAlt"   -> [gene EXCEPT !.branch_alt = field.value]

\* a clamp without the upper bound
Clamp_NoUpper(v, lo, hi) == IF v < lo THEN lo ELSE v

Clamp(v, lo, hi) == IF v < lo THEN lo ELSE IF v > hi THEN hi ELSE v

color_mutate(color, channel, delta) ==
    [i \in 1 .. 3 |-> Clamp(IF i = channel THEN color[i] + delta ELSE color[i], 0, 255)]

\* a minimum that is always its first argument
Min_First(a, b) == a

\* the larger of the two
Min_Larger(a, b) == IF a < b THEN b ELSE a

Min(a, b) == IF a < b THEN a ELSE b

-----------------------------------------------------------------------------
(* Bot::update *)

\* a refusal test that spares every occupied cell
MakeChildRefused_Occupied(self, cell_in_front) == ~cell_in_front.empty

\* the refusal test of the older revision: aliveness, not emptiness, and a
\* strict comparison
MakeChildRefused_Older(self, cell_in_front) ==
    ~(self.energy > REPRODUCTION_REQUIRED_ENERGY /\ ~cell_in_front.alive)

\* the refusal test of MakeChild
MakeChildRefused(self, cell_in_front) ==
    self.energy < REPRODUCTION_REQUIRED_ENERGY /\ ~cell_in_front.empty

\* an offspring built from the default cell: empty is left set
MakeChildBot_FromDefault(self, looking_x, looking_y) ==
    [self EXCEPT !.x = looking_x, !.y = looking_y, !.age = 0,
                 !.energy = START_ENERGY, !.current_instruction = 0,
                 !.empty = TRUE]

\* an offspring that keeps the parent's energy
MakeChildBot_KeepEnergy(self, looking_x, looking_y) ==
    [self EXCEPT !.x = looking_x, !.y = looking_y, !.age = 0,
                 !.current_instruction = 0]

\* an offspring that is given half of the parent's energy
MakeChildBot_HalfEnergy(self, looking_x, looking_y) ==
    [self EXCEPT !.x = looking_x, !.y = looking_y, !.age = 0,
                 !.energy = self.energy \div 2, !.current_instruction = 0]

\* the offspring of MakeChild, before mutation
MakeChildBot(self, looking_x, looking_y) ==
    [self EXCEPT !.x = looking_x, !.y = looking_y, !.age = 0,
                 !.energy = START_ENERGY, !.current_instruction = 0]

\* the offspring of MakeChild
MakeChildMutated(child, rnd) ==
    IF rnd.roll
    THEN [child EXCEPT
            !.genome[rnd.gene_to_mutate] = mutate(@, rnd.field),
            !.color = color_mutate(@, rnd.channel, rnd.delta)]
    ELSE child

\* a recycling that leaves the faced cell as it is
Recycled_NotMarked(cell_in_front) == cell_in_front

\* what RecycleDeadCell leaves in the faced cell
Recycled(cell_in_front) == [cell_in_front EXCEPT !.empty = TRUE]

\* the branch taken by a Check* instruction
BranchIf(cond, gene) == IF cond THEN gene.branch ELSE gene.branch_alt

\* a comparison that looks at the first gene only
SimilarGenes_FirstOnly(self, cell_in_front) ==
    IF self.genome[0].instruction = cell_in_front.genome[0].instruction
    THEN GENOME_LENGTH ELSE 0

\* similar_genes of CheckIfFacingRelative
SimilarGenes(self, cell_in_front) ==
    Cardinality({i \in GeneIndex :
                    self.genome[i].instruction = cell_in_front.genome[i].instruction})

\* The match on the current instruction: the bot, the faced cell and the
\* next instruction pointer it leaves; child tells whether an offspring
\* was written to the faced coordinate.
Dispatch(self, cell_in_front, looking_x, looking_y, rnd) ==
    LET gene == current_instruction(self)
        op   == gene.instruction
        base == [self |-> self, front |-> cell_in_front,
                 next |-> (self.current_instruction + 1) % 256, child |-> FALSE]
    IN
    CASE op = "TurnLeft" ->
           [base EXCEPT !.self.direction = left(self.direction),
                        !.self.energy = @ - TURN_COST]
      [] op = "TurnRight" ->
           [base EXCEPT !.self.direction = right(self.direction),
                        !.self.energy = @ - TURN_COST]
      [] op = "MoveForwards" ->
           IF cell_in_front.empty
           THEN [base EXCEPT !.self.x = looking_x, !.self.y = looking_y,
                             !.self.energy = @ - MOVEMENT_COST]
           ELSE base
      [] op = "Photosynthesis" ->
           [base EXCEPT !.self.energy = @ + PHOTOSYNTHESIS_ENERGY]
      [] op = "GiveEnergy" ->
           IF cell_in_front.alive
           THEN LET energy_to_give == Clamp(gene.energy, 0, self.energy)
                IN [base EXCEPT !.front.energy = @ + energy_to_give,
                                !.self.energy = @ - energy_to_give]
           ELSE base
      [] op = "AttackCell" ->
           IF self.energy >= ATTACK_REQUIRED_ENERGY /\ cell_in_front.alive
           THEN LET taken_energy == Min(cell_in_front.energy, ATTACK_ENERGY)
                IN [base EXCEPT !.front.energy = @ - taken_energy,
                                !.self.energy = @ - ATTACK_REQUIRED_ENERGY + taken_energy]
           ELSE base
      [] op = "RecycleDeadCell" ->
           IF is_dead(cell_in_front)
           THEN [base EXCEPT !.self.energy = @ + cell_in_front.energy,
                             !.front = Recycled(cell_in_front)]
           ELSE base
      [] op = "CheckEnergy" ->
           [base EXCEPT !.next = BranchIf(self.energy > gene.energy, gene)]
      [] op = "CheckIfDirectedLeft" ->
           [base EXCEPT !.next = BranchIf(self.direction = "Left", gene)]
      [] op = "CheckIfDirectedRight" ->
           [base EXCEPT !.next = BranchIf(self.direction = "Right", gene)]
      [] op = "CheckIfDirectedUp" ->
           [base EXCEPT !.next = BranchIf(self.direction = "Up", gene)]
      [] op = "CheckIfDirectedDown" ->
           [base EXCEPT !.next = BranchIf(self.direction = "Down", gene)]
      [] op = "CheckIfFacingAliveCell" ->
           [base EXCEPT !.next = BranchIf(cell_in_front.alive, gene)]
      [] op = "CheckIfFacingDeadCell" ->
           [base EXCEPT !.next = BranchIf(is_dead(cell_in_front), gene)]
      [] op = "CheckIfFacingVoid" ->
           [base EXCEPT !.next = BranchIf(cell_in_front.empty, gene)]
      [] op = "CheckIfFacingRelative" ->
           IF ~cell_in_front.alive
           THEN [base EXCEPT !.next = gene.branch_alt]
           ELSE [base EXCEPT !.next =
                    BranchIf(SimilarGenes(self, cell_in_front) = GENOME_LENGTH, gene)]
      [] op = "MakeChild" ->
           IF MakeChildRefused(self, cell_in_front)
           THEN [base EXCEPT !.next = gene.branch_alt]
           ELSE [base EXCEPT
                    !.front = MakeChildMutated(MakeChildBot(self, looking_x, looking_y), rnd),
                    !.self.energy = @ - REPRODUCTION_REQUIRED_ENERGY,
                    !.next = gene.branch,
                    !.child = TRUE]
      [] op = "Noop" -> base

\* a wrap that lets the pointer reach GENOME_LENGTH
WrapPointer_OffByOne(next_instruction) ==
    IF next_instruction > GENOME_LENGTH THEN 0 ELSE next_instruction

\* "If instruction pointer goes beyond the end of genome, wrap around"
WrapPointer(next_instruction) ==
    IF next_instruction >= GENOME_LENGTH THEN 0 ELSE next_instruction

\* a death check that tolerates a debt of one unit of energy
Dies_BelowDebt(age, energy) == age > CELL_MAX_AGE \/ energy < 0 - 100

\* a death check that forgets the energy
Dies_AgeOnly(age, energy) == age > CELL_MAX_AGE

\* "Cell can die of age, or if it has less than 0 energy"
Dies(age, energy) == age > CELL_MAX_AGE \/ energy < 0

\* an end of update that charges no idle cost
Finish_NoIdleCost(self, next_instruction) ==
    [self EXCEPT !.current_instruction = WrapPointer(next_instruction),
                 !.alive = IF Dies(self.age, self.energy) THEN FALSE ELSE self.alive,
                 !.age = self.age + 1]

\* the end of Bot::update: pointer, idle cost, death, age
Finish(self, next_instruction) ==
    LET energy == self.energy - NOOP_COST
    IN [self EXCEPT !.current_instruction = WrapPointer(next_instruction),
                    !.energy = energy,
                    !.alive = IF Dies(self.age, energy) THEN FALSE ELSE self.alive,
                    !.age = self.age + 1]

\* an update without the early return: non-alive cells are interpreted too
BotUpdate_NoEarlyReturn(self, m, rnd) ==
    LET looking == apply_direction(self.direction, self.x, self.y)
        cell_in_front == MapGet(m, looking[1], looking[2])
        d == Dispatch(self, cell_in_front, looking[1], looking[2], rnd)
    IN [bot |-> Finish(d.self, d.next),
        map |-> MapSet(m, looking[1], looking[2], d.front),
        ran |-> TRUE, child |-> d.child, next |-> d.next,
        looking |-> looking, front_pre |-> cell_in_front, front_post |-> d.front]

\* Bot::update(&mut self, map): the bot and the map it leaves.  looking is
\* the faced coordinate; front_pre and front_post are the faced cell before
\* and after; ran tells whether an instruction was executed, next is the
\* next instruction pointer before it is wrapped.
BotUpdate(self, m, rnd) ==
    LET looking == apply_direction(self.direction, self.x, self.y)
        cell_in_front == MapGet(m, looking[1], looking[2])
    IN
    IF ~self.alive
    THEN [bot |-> self, map |-> m, ran |-> FALSE, child |-> FALSE,
          next |-> self.current_instruction,
          looking |-> looking, front_pre |-> cell_in_front, front_post |-> cell_in_front]
    ELSE LET d == Dispatch(self, cell_in_front, looking[1], looking[2], rnd)
         IN [bot |-> Finish(d.self, d.next),
             map |-> MapSet(m, looking[1], looking[2], d.front),
             ran |-> TRUE, child |-> d.child, next |-> d.next,
             looking |-> looking, front_pre |-> cell_in_front, front_post |-> d.front]

\* draws under which the update of a bot that already ran in this tick
\* never returns
DrawsFor_SecondUpdateHangs(self, m) ==
    IF self.alive /\ executed[self.x][self.y].count > 0 THEN {} ELSE {NoMutation}

\* the random draws an update of this bot can consume
DrawsFor(self, m) ==
    LET looking == apply_direction(self.direction, self.x, self.y)
        cell_in_front == MapGet(m, looking[1], looking[2])
    IN IF /\ self.alive
          /\ current_instruction(self).instruction = "MakeChild"
          /\ ~MakeChildRefused(self, cell_in_front)
          /\ mutations < MaxMutations
       THEN {NoMutation} \cup MutationDraws
       ELSE {NoMutation}

-----------------------------------------------------------------------------
(* Simulation::new and Simulation::generate_map.  Every cell is a random   *)
(* alive bot or an empty cell; the genomes, colors and the number of alive *)
(* cells are drawn from bounded sets.                                      *)

Xs == 0 .. (Width - 1)
Ys == 0 .. (Height - 1)
Coords == Xs \X Ys

GeneOf(op, e) ==
    [instruction |-> op, option |-> FALSE, energy |-> e,
     branch |-> 0, branch_alt |-> GENOME_LENGTH - 1]

Uniform(gene) == [i \in GeneIndex |-> gene]

Program(first, rest) == [i \in GeneIndex |-> IF i = 0 THEN first ELSE rest]

\* genomes drawn by Bot::new_random: every opcode occurs, the opcodes that
\* leave the pointer at +1 first
GenomePool ==
    {Program(GeneOf("MakeChild", 300), GeneOf("RecycleDeadCell", 300)),
     Program(GeneOf("RecycleDeadCell", 300), GeneOf("CheckIfFacingDeadCell", 300)),
     Program(GeneOf("MoveForwards", 300), GeneOf("CheckIfFacingVoid", 300)),
     Program(GeneOf("Photosynthesis", 300), GeneOf("CheckEnergy", 300)),
     Program(GeneOf("GiveEnergy", 300), GeneOf("CheckIfFacingAliveCell", 300)),
     Program(GeneOf("AttackCell", 300), GeneOf("CheckIfFacingRelative", 300)),
     Program(GeneOf("TurnLeft", 300), GeneOf("CheckIfDirectedLeft", 300)),
     Program(GeneOf("TurnRight", 300), GeneOf("CheckIfDirectedRight", 300)),
     Program(GeneOf("Noop", 300), GeneOf("CheckIfDirectedUp", 300)),
     Program(GeneOf("CheckIfDirectedDown", 300), GeneOf("MakeChild", 300)),
     Program(GeneOf("CheckEnergy", 2000), GeneOf("Noop", 300))}

ColorPool == {<<250, 8, 128>>}

BotDraws == GenomePool \X Direction \X ColorPool

GeneratedMap(S, f) ==
    [x \in Xs |-> [y \in Ys |->
        IF <<x, y>> \in S
        THEN new_random(x, y, f[<<x, y>>][1], f[<<x, y>>][2], f[<<x, y>>][3])
        ELSE new_empty(x, y)]]

\* generate_map leaves m, with at most maxbots alive cells
generate_map(m, maxbots) ==
    \E S \in {T \in SUBSET Coords : Cardinality(T) <= maxbots} :
        \E f \in [S -> BotDraws] : m = GeneratedMap(S, f)

NoUpdate ==
    [ran |-> FALSE, child |-> FALSE, roll |-> FALSE, next |-> 0, looking |-> <<0, 0>>,
     pre |-> BotDefault, post |-> BotDefault,
     front_pre |-> BotDefault, front_post |-> BotDefault]

NotExecuted == [started |-> FALSE, count |-> 0]

NoneExecuted == [x \in Xs |-> [y \in Ys |-> NotExecuted]]

\* struct SimulationData as the thread builds it from the simulation
\* (fps, a wall-clock measure, is left out)
SimulationData(sim_iterations, sim_paused, sim_map, sim_selected_bot, sim_target_tps) ==
    [iterations |-> sim_iterations, paused |-> sim_paused, map |-> sim_map,
     selected_bot |-> sim_selected_bot, target_tps |-> sim_target_tps]

\* Map::new(width, height): every cell is Bot::default()
MapNew == [x \in Xs |-> [y \in Ys |-> BotDefault]]

\* the SimulationData Simulation::new puts in simulation_data_cache
NewSimulationData == SimulationData(0, TRUE, MapNew, NoBot, None)

\* Simulation::new and spawn_thread: the cache, the empty channel and the
\* handle's data, which is the cache
InitThread ==
    /\ target_tps = None
    /\ simulation_data_cache = NewSimulationData
    /\ sync_channel = <<>>
    /\ data = NewSimulationData
    /\ commands = 0
    /\ set_bot_trigger = <<>>
    /\ host = "running"
    /\ command_rx = <<>>
    /\ sent = <<>>
    /\ applied = <<>>
    /\ applied_at = 0
    /\ skipped = FALSE

Init ==
    /\ InitThread
    /\ generate_map(map, MaxBots)
    /\ iterations = 0
    /\ paused = TRUE
    /\ selected_bot_coordinates = None
    /\ selected_bot = NoBot
    /\ pc = "idle"
    /\ sx = 0
    /\ sy = 0
    /\ executed = NoneExecuted
    /\ last = NoUpdate
    /\ mutations = 0
    /\ injections = 0

-----------------------------------------------------------------------------
(* The simulation thread *)

\* pause_trigger received: between two calls of Simulation::update
TogglePause ==
    /\ pc = "idle"
    /\ paused' = ~paused
    /\ UNCHANGED <<map, iterations, selected_bot_coordinates, selected_bot,
                   pc, sx, sy, executed, last, mutations, injections>>
    /\ UNCHANGED threadvars

\* Simulation::update is entered unpaused: the scan starts at x = 0, y = 0
StartTick ==
    /\ pc = "idle"
    /\ ~paused
    /\ iterations < MaxIter
    /\ pc' = "scan"
    /\ sx' = 0
    /\ sy' = 0
    /\ executed' = [x \in Xs |-> [y \in Ys |->
                        [started |-> map[x][y].alive, count |-> 0]]]
    /\ UNCHANGED <<map, iterations, paused, selected_bot_coordinates,
                   selected_bot, last, mutations, injections>>
    /\ UNCHANGED threadvars

\* one iteration of the loop body of Simulation::update, at x = sx, y = sy
\* (the thread runs as long as the process does: a panic of the host's main
\* thread ends the process)
ScanCell ==
    /\ host = "running"
    /\ pc = "scan"
    /\ LET bot0 == MapGet(map, sx, sy)
           orig_pos == coordinates(bot0)
       IN \E rnd \in DrawsFor(bot0, map) :
            LET r == BotUpdate(bot0, map, rnd)
                bot == r.bot
                moved == orig_pos # coordinates(bot)
                m1 == IF moved
                      THEN MapSet(r.map, orig_pos[1], orig_pos[2],
                                  new_empty(orig_pos[1], orig_pos[2]))
                      ELSE r.map
                tracked == /\ selected_bot_coordinates # None
                           /\ selected_bot_coordinates = orig_pos
                mine == executed[orig_pos[1]][orig_pos[2]]
                count == [mine EXCEPT !.count = @ + (IF r.ran THEN 1 ELSE 0)]
                e1 == IF r.child
                      THEN MapSet(executed, r.looking[1], r.looking[2], NotExecuted)
                      ELSE executed
                e2 == IF moved
                      THEN MapSet(e1, orig_pos[1], orig_pos[2], NotExecuted)
                      ELSE e1
            IN /\ map' = MapSet(m1, bot.x, bot.y, bot)
               /\ selected_bot_coordinates' =
                     IF tracked THEN coordinates(bot) ELSE selected_bot_coordinates
               /\ selected_bot' = IF tracked THEN Some(bot) ELSE selected_bot
               /\ executed' = MapSet(e2, bot.x, bot.y, count)
               /\ last' = [ran |-> r.ran, child |-> r.child, roll |-> rnd.roll,
                           next |-> r.next,
                           looking |-> r.looking, pre |-> bot0, post |-> bot,
                           front_pre |-> r.front_pre, front_post |-> r.front_post]
               /\ mutations' = IF rnd.roll THEN mutations + 1 ELSE mutations
    /\ IF sy + 1 < Height
       THEN /\ sy' = sy + 1
            /\ UNCHANGED <<sx, pc>>
       ELSE IF sx + 1 < Width
            THEN /\ sx' = sx + 1
                 /\ sy' = 0
                 /\ UNCHANGED pc
            ELSE /\ pc' = "done"
                 /\ UNCHANGED <<sx, sy>>
    /\ UNCHANGED <<iterations, paused, injections>>
    /\ UNCHANGED threadvars

\* the scan is over: self.iterations += 1
FinishTick ==
    /\ pc = "done"
    /\ iterations' = iterations + 1
    /\ pc' = "idle"
    /\ UNCHANGED <<map, paused, selected_bot_coordinates, selected_bot,
                   sx, sy, executed, last, mutations, injections>>
    /\ UNCHANGED threadvars

Next == TogglePause \/ StartTick \/ ScanCell \/ FinishTick

Spec == Init /\ [][Next]_vars

-----------------------------------------------------------------------------
(* The host: cells set through set_bot_trigger.  The bot comes from the    *)
(* host's JSON, so its fields hold whatever the JSON holds.                *)

HostBot(alive, empty, energy, direction, genome) ==
    [alive |-> alive, empty |-> empty, x |-> 0, y |-> 0, energy |-> energy,
     direction |-> direction, age |-> 0, color |-> <<250, 8, 128>>,
     genome |-> genome, current_instruction |-> 0]

\* a branch target beyond the genome, as a u8 field can hold
FarGene(op) ==
    [instruction |-> op, option |-> FALSE, energy |-> 300,
     branch |-> GENOME_LENGTH + 1, branch_alt |-> GENOME_LENGTH + 1]

\* a gene whose option, energy and branch fields all differ from GeneOf's
OtherFields(op) ==
    [instruction |-> op, option |-> TRUE, energy |-> 700,
     branch |-> GENOME_LENGTH - 1, branch_alt |-> 0]

HostBots ==
    {HostBot(TRUE, FALSE, 2000, d, Uniform(GeneOf("MakeChild", 300))) :
        d \in {"Right", "Down"}}
      \cup {HostBot(TRUE, FALSE, 500, "Down", Uniform(FarGene("CheckEnergy"))),
            HostBot(FALSE, FALSE, 700, "Left", Uniform(GeneOf("Noop", 300)))}
      \cup {HostBot(TRUE, FALSE, 500, "Left",
                    Program(OtherFields("AttackCell"), OtherFields(op))) :
                op \in {"CheckIfFacingRelative", "Noop"}}

\* an injection that leaves the bot's own coordinates as the host gave them
set_coordinates_Keep(bot, x, y) == bot

set_coordinates(bot, x, y) == [bot EXCEPT !.x = x, !.y = y]

\* set_bot_trigger received: between two calls of Simulation::update
SetBot ==
    /\ pc = "idle"
    /\ injections < MaxInjections
    /\ \E x \in Xs, y \in Ys, bot \in HostBots :
          map' = MapSet(map, x, y, set_coordinates(bot, x, y))
    /\ injections' = injections + 1
    /\ last' = NoUpdate
    /\ UNCHANGED <<iterations, paused, selected_bot_coordinates, selected_bot,
                   pc, sx, sy, executed, mutations>>
    /\ UNCHANGED threadvars

InitHost ==
    /\ InitThread
    /\ generate_map(map, 1)
    /\ iterations = 0
    /\ paused = TRUE
    /\ selected_bot_coordinates = None
    /\ selected_bot = NoBot
    /\ pc = "idle"
    /\ sx = 0
    /\ sy = 0
    /\ executed = NoneExecuted
    /\ last = NoUpdate
    /\ mutations = 0
    /\ injections = 0

NextHost == TogglePause \/ SetBot \/ StartTick \/ ScanCell \/ FinishTick

SpecHost == InitHost /\ [][NextHost]_vars

-----------------------------------------------------------------------------
(* Two adjacent alive cells the host has set on an otherwise empty grid    *)
(* before the first tick: at (0, 0) a bot of energy 5 whose genes are all  *)
(* AttackCell and which faces (1, 0); at (1, 0) a bot of energy 10 with    *)
(* any opcode and any direction.                                           *)

AttackLeft ==
    set_coordinates(HostBot(TRUE, FALSE, 500, "Right",
                            Uniform(GeneOf("AttackCell", 300))), 0, 0)

AttackRights ==
    {set_coordinates(HostBot(TRUE, FALSE, 1000, d, Uniform(GeneOf(op, 300))), 1, 0) :
        d \in Direction, op \in Instruction}

AttackMaps ==
    {MapSet(MapSet(GeneratedMap({}, <<>>), 0, 0, AttackLeft), 1, 0, bot) :
        bot \in AttackRights}

InitAttack ==
    /\ InitThread
    /\ map \in AttackMaps
    /\ iterations = 0
    /\ paused = TRUE
    /\ selected_bot_coordinates = None
    /\ selected_bot = NoBot
    /\ pc = "idle"
    /\ sx = 0
    /\ sy = 0
    /\ executed = NoneExecuted
    /\ last = NoUpdate
    /\ mutations = 0
    /\ injections = 0

SpecAttack == InitAttack /\ [][Next]_vars

-----------------------------------------------------------------------------
(* The simulation thread of spawn_thread, pass by pass: the five try_recv  *)
(* at the top of the loop, Simulation::update, the try_send of the cached  *)
(* SimulationData; and the host, which takes the data from the channel.    *)
(* pc is "idle" at the top of the loop, "update" when update() is called,  *)
(* "scan" and "done" inside it, "send" after it.                           *)

\* the bots the grids of this specification are drawn from
ThreadDraws ==
    {<<Program(GeneOf("MoveForwards", 300), GeneOf("CheckIfFacingVoid", 300)), d, c>> :
        d \in {"Right", "Down"}, c \in ColorPool}
      \cup {<<Program(GeneOf("MakeChild", 300), GeneOf("RecycleDeadCell", 300)), "Up", c>> :
        c \in ColorPool}

\* the grids generate_map leaves here: no alive cell, or one at (0, 0)
ThreadMaps ==
    UNION {{GeneratedMap(S, f) : f \in [S -> ThreadDraws]} :
              S \in {{}, {<<0, 0>>}}}

\* the cells the host sets here
ThreadBots == {HostBot(FALSE, FALSE, 700, "Left", Uniform(GeneOf("Noop", 300)))}

\* the target rates the host sets
TargetRates == {"Some(60)"}

\* what one pass can receive: rp, rr, rs, rl, rt tell whether the pause,
\* reset, set_bot, select_bot and target_tps channels hold a message
Received ==
    {r \in [rp : BOOLEAN, rr : BOOLEAN, rs : BOOLEAN, rl : BOOLEAN, rt : BOOLEAN] :
        /\ r.rs = (Len(set_bot_trigger) > 0)
        /\ commands + injections + Cardinality({f \in {"rr", "rl", "rt"} : r[f]})
              <= MaxCommands}

InitRun ==
    /\ InitThread
    /\ map \in ThreadMaps
    /\ iterations = 0
    /\ paused = TRUE
    /\ selected_bot_coordinates = None
    /\ selected_bot = NoBot
    /\ pc = "idle"
    /\ sx = 0
    /\ sy = 0
    /\ executed = NoneExecuted
    /\ last = NoUpdate
    /\ mutations = 0
    /\ injections = 0

\* the top of the loop: one try_recv on each of the five channels, in the
\* order pause, reset, set_bot, select_bot, target_tps
ReceiveCommands ==
    /\ host = "running"
    /\ pc = "idle"
    /\ \E r \in Received :
        \E generated \in (IF r.rr THEN ThreadMaps ELSE {map}),
           selection \in (IF r.rl THEN Coords ELSE {selected_bot_coordinates}),
           target \in (IF r.rt THEN TargetRates ELSE {target_tps}) :
          /\ paused' = IF r.rp THEN ~paused ELSE paused
          /\ iterations' = IF r.rr THEN 0 ELSE iterations
          /\ map' = IF r.rs
                    THEN LET x == Head(set_bot_trigger)[1]
                             y == Head(set_bot_trigger)[2]
                             bot == Head(set_bot_trigger)[3]
                         IN  MapSet(generated, x, y, set_coordinates(bot, x, y))
                    ELSE generated
          /\ set_bot_trigger' = IF r.rs THEN Tail(set_bot_trigger)
                                        ELSE set_bot_trigger
          /\ selected_bot_coordinates' = selection
          /\ target_tps' = target
          /\ last' = IF r.rr \/ r.rs THEN NoUpdate ELSE last
          /\ commands' =
                commands + Cardinality({f \in {"rr", "rl", "rt"} : r[f]})
    /\ pc' = "update"
    /\ UNCHANGED <<selected_bot, sx, sy, executed, mutations, injections,
                   simulation_data_cache, sync_channel, data, host, runnervars>>

\* an update that scans the grid also while paused
UpdatePaused_Scans ==
    /\ host = "running"
    /\ pc = "update"
    /\ paused
    /\ iterations < MaxIter
    /\ pc' = "scan"
    /\ sx' = 0
    /\ sy' = 0
    /\ executed' = [x \in Xs |-> [y \in Ys |->
                        [started |-> map[x][y].alive, count |-> 0]]]
    /\ UNCHANGED <<map, iterations, paused, selected_bot_coordinates,
                   selected_bot, last, mutations, injections, threadvars>>

\* Simulation::update called while paused: it returns at once
UpdatePaused ==
    /\ host = "running"
    /\ pc = "update"
    /\ paused
    /\ pc' = "send"
    /\ UNCHANGED <<map, iterations, paused, selected_bot_coordinates, selected_bot,
                   sx, sy, executed, last, mutations, injections, threadvars>>

\* Simulation::update called while not paused: the scan starts
UpdateStart ==
    /\ host = "running"
    /\ pc = "update"
    /\ ~paused
    /\ iterations < MaxIter
    /\ pc' = "scan"
    /\ sx' = 0
    /\ sy' = 0
    /\ executed' = [x \in Xs |-> [y \in Ys |->
                        [started |-> map[x][y].alive, count |-> 0]]]
    /\ UNCHANGED <<map, iterations, paused, selected_bot_coordinates,
                   selected_bot, last, mutations, injections, threadvars>>

\* an end of the scan that counts the tick twice
UpdateEnd_CountsTwice ==
    /\ host = "running"
    /\ pc = "done"
    /\ iterations' = iterations + 2
    /\ pc' = "send"
    /\ UNCHANGED <<map, paused, selected_bot_coordinates, selected_bot,
                   sx, sy, executed, last, mutations, injections, threadvars>>

\* the scan is over: self.iterations += 1, and update() returns
UpdateEnd ==
    /\ host = "running"
    /\ pc = "done"
    /\ iterations' = iterations + 1
    /\ pc' = "send"
    /\ UNCHANGED <<map, paused, selected_bot_coordinates, selected_bot,
                   sx, sy, executed, last, mutations, injections, threadvars>>

\* a send that never rebuilds the cache
SendData_KeepsCache ==
    /\ host = "running"
    /\ pc = "send"
    /\ IF Len(sync_channel) < 1
       THEN /\ sync_channel' = Append(sync_channel, simulation_data_cache)
            /\ UNCHANGED simulation_data_cache
       ELSE UNCHANGED <<sync_channel, simulation_data_cache>>
    /\ pc' = "idle"
    /\ UNCHANGED <<map, iterations, paused, selected_bot_coordinates, selected_bot,
                   sx, sy, executed, last, mutations, injections,
                   target_tps, data, commands, set_bot_trigger, host, runnervars>>

\* a blocking send: the thread waits until the channel has room
SendData_Blocking ==
    /\ host = "running"
    /\ pc = "send"
    /\ Len(sync_channel) < 1
    /\ sync_channel' = Append(sync_channel, simulation_data_cache)
    /\ simulation_data_cache' =
          SimulationData(iterations, paused, map, selected_bot, target_tps)
    /\ pc' = "idle"
    /\ UNCHANGED <<map, iterations, paused, selected_bot_coordinates, selected_bot,
                   sx, sy, executed, last, mutations, injections,
                   target_tps, data, commands, set_bot_trigger, host, runnervars>>

\* a send that is also made from inside the scan
SendData_MidScan ==
    /\ pc \in {"send", "scan"}
    /\ IF Len(sync_channel) < 1
       THEN /\ sync_channel' = Append(sync_channel, simulation_data_cache)
            /\ simulation_data_cache' =
                  SimulationData(iterations, paused, map, selected_bot, target_tps)
       ELSE UNCHANGED <<sync_channel, simulation_data_cache>>
    /\ pc' = IF pc = "send" THEN "idle" ELSE pc
    /\ UNCHANGED <<map, iterations, paused, selected_bot_coordinates, selected_bot,
                   sx, sy, executed, last, mutations, injections,
                   target_tps, data, commands, set_bot_trigger, host, runnervars>>

\* tx.try_send(Arc::clone(&self.simulation_data_cache)): if the channel has
\* room the cache is sent and then rebuilt from the simulation
SendData ==
    /\ host = "running"
    /\ pc = "send"
    /\ IF Len(sync_channel) < 1
       THEN /\ sync_channel' = Append(sync_channel, simulation_data_cache)
            /\ simulation_data_cache' =
                  SimulationData(iterations, paused, map, selected_bot, target_tps)
       ELSE UNCHANGED <<sync_channel, simulation_data_cache>>
    /\ pc' = "idle"
    /\ UNCHANGED <<map, iterations, paused, selected_bot_coordinates, selected_bot,
                   sx, sy, executed, last, mutations, injections,
                   target_tps, data, commands, set_bot_trigger, host, runnervars>>

\* SimulationThreadHandle::try_refresh on the host's thread
TryRefresh ==
    /\ host = "running"
    /\ Len(sync_channel) > 0
    /\ data' = Head(sync_channel)
    /\ sync_channel' = Tail(sync_channel)
    /\ UNCHANGED <<map, iterations, paused, selected_bot_coordinates, selected_bot,
                   pc, sx, sy, executed, last, mutations, injections,
                   target_tps, simulation_data_cache, commands,
                   set_bot_trigger, host, runnervars>>

\* what the host pastes into the text field: a JSON object, given by the
\* names of its members and their values; one text is the JSON of a bot,
\* the other lacks the member genome
PastedTexts ==
    {[members |-> DOMAIN bot \ missing, values |-> bot] :
        bot \in ThreadBots, missing \in {{}, {"genome"}}}

\* serde_json::from_str::<Bot>(text): Err when a field of Bot is missing
from_str(text) ==
    IF DOMAIN BotDefault \subseteq text.members
    THEN [ok |-> TRUE, value |-> text.values]
    ELSE [ok |-> FALSE, value |-> BotDefault]

\* the Paste! button of the host: handle.set_cell(pasted_bot_x, pasted_bot_y,
\* serde_json::from_str(&pasted_bot_json).unwrap()); unwrap panics on Err,
\* on the host's main thread, before set_cell is called
Paste ==
    /\ host = "running"
    /\ injections < MaxInjections
    /\ commands + injections < MaxCommands
    /\ \E pasted_bot_json \in PastedTexts, pasted_bot_x \in Xs, pasted_bot_y \in {0} :
          LET parsed == from_str(pasted_bot_json)
          IN  IF parsed.ok
              THEN /\ set_bot_trigger' =
                         Append(set_bot_trigger,
                                <<pasted_bot_x, pasted_bot_y, parsed.value>>)
                   /\ host' = host
              ELSE /\ host' = "panicked"
                   /\ UNCHANGED set_bot_trigger
    /\ injections' = injections + 1
    /\ UNCHANGED <<map, iterations, paused, selected_bot_coordinates, selected_bot,
                   pc, sx, sy, executed, last, mutations,
                   target_tps, simulation_data_cache, sync_channel, data, commands,
                   runnervars>>

NextRun ==
    \/ Paste
    \/ ReceiveCommands
    \/ UpdatePaused
    \/ UpdateStart
    \/ ScanCell
    \/ UpdateEnd
    \/ SendData
    \/ TryRefresh

SpecRun == InitRun /\ [][NextRun]_vars

-----------------------------------------------------------------------------
(* The runner: SimulationRunner owns the simulation on its thread and      *)
(* SimulationHandle is the host's side.  One channel of Cmd runs from the  *)
(* handle to the runner, and a sync_channel(1) of metadata runs back:      *)
(* simulation_data_cache is next_metadata, sync_channel is the metadata    *)
(* channel and data is the handle's metadata.  The loop of run is          *)
(* handle_commands, then a tick or a sleep, then send_metadata.            *)

\* the commands the host sends at most
MaxSent == 2

\* enum Cmd, as the tuple of the variant and its fields
Cmds ==
    {<<"TogglePause">>, <<"Reset">>, <<"UpdateConfig">>}
      \cup {<<"SelectCell", c[1], c[2]>> : c \in {<<0, 0>>}}

\* SimulationRunner::start_new: the runner is built paused, and
\* construct_metadata runs before the thread is spawned, so next_metadata
\* and the handle's metadata are built from the simulation
InitRunner ==
    /\ map \in ThreadMaps
    /\ iterations = 0
    /\ paused = TRUE
    /\ selected_bot_coordinates = None
    /\ selected_bot = NoBot
    /\ target_tps = None
    /\ simulation_data_cache =
          SimulationData(iterations, paused, map, selected_bot, target_tps)
    /\ data = simulation_data_cache
    /\ sync_channel = <<>>
    /\ command_rx = <<>>
    /\ sent = <<>>
    /\ applied = <<>>
    /\ applied_at = 0
    /\ skipped = FALSE
    /\ commands = 0
    /\ set_bot_trigger = <<>>
    /\ host = "running"
    /\ pc = "idle"
    /\ sx = 0
    /\ sy = 0
    /\ executed = NoneExecuted
    /\ last = NoUpdate
    /\ mutations = 0
    /\ injections = 0

\* SimulationHandle::reset, toggle_pause, select_bot and update_config:
\* self.tx.send(Cmd), on a channel without a bound
SendCmd ==
    /\ host = "running"
    /\ Len(sent) < MaxSent
    /\ \E command \in Cmds :
          /\ command_rx' = Append(command_rx, command)
          /\ sent' = Append(sent, command)
    /\ UNCHANGED <<map, iterations, paused, selected_bot_coordinates, selected_bot,
                   pc, sx, sy, executed, last, mutations, injections,
                   target_tps, simulation_data_cache, sync_channel, data, commands,
                   set_bot_trigger, host, applied, applied_at, skipped>>

\* a handle_commands that takes the newest command that waits
handle_commands_Newest ==
    /\ host = "running"
    /\ pc = "idle"
    /\ IF command_rx # <<>>
       THEN LET command == command_rx[Len(command_rx)]
            IN  /\ command_rx' = SubSeq(command_rx, 1, Len(command_rx) - 1)
                /\ applied' = Append(applied, command)
                /\ skipped' = FALSE
                /\ paused' = IF command[1] = "TogglePause" THEN ~paused ELSE paused
                /\ iterations' = IF command[1] = "Reset" THEN 0 ELSE iterations
                /\ applied_at' = IF command[1] = "Reset" THEN 0 ELSE iterations
                /\ \E generated \in (IF command[1] = "Reset" THEN ThreadMaps ELSE {map}) :
                      map' = generated
                /\ selected_bot_coordinates' =
                      IF command[1] = "SelectCell" THEN <<command[2], command[3]>>
                                                  ELSE selected_bot_coordinates
                /\ last' = IF command[1] = "Reset" THEN NoUpdate ELSE last
       ELSE /\ skipped' = TRUE
            /\ UNCHANGED <<command_rx, applied, applied_at, paused, iterations, map,
                           selected_bot_coordinates, last>>
    /\ pc' = "update"
    /\ UNCHANGED <<selected_bot, sx, sy, executed, mutations, injections,
                   target_tps, simulation_data_cache, sync_channel, data, commands,
                   set_bot_trigger, host, sent>>

\* SimulationRunner::handle_commands: one try_recv, and the command it
\* yields is applied; Reset is the reset of the thread loop (the counter
\* to 0 and a generated map), SelectCell sets the selection; the
\* configuration of UpdateConfig is not part of this model's state
handle_commands ==
    /\ host = "running"
    /\ pc = "idle"
    /\ IF command_rx # <<>>
       THEN LET command == Head(command_rx)
            IN  /\ command_rx' = Tail(command_rx)
                /\ applied' = Append(applied, command)
                /\ skipped' = FALSE
                /\ paused' = IF command[1] = "TogglePause" THEN ~paused ELSE paused
                /\ iterations' = IF command[1] = "Reset" THEN 0 ELSE iterations
                /\ applied_at' = IF command[1] = "Reset" THEN 0 ELSE iterations
                /\ \E generated \in (IF command[1] = "Reset" THEN ThreadMaps ELSE {map}) :
                      map' = generated
                /\ selected_bot_coordinates' =
                      IF command[1] = "SelectCell" THEN <<command[2], command[3]>>
                                                  ELSE selected_bot_coordinates
                /\ last' = IF command[1] = "Reset" THEN NoUpdate ELSE last
       ELSE /\ skipped' = TRUE
            /\ UNCHANGED <<command_rx, applied, applied_at, paused, iterations, map,
                           selected_bot_coordinates, last>>
    /\ pc' = "update"
    /\ UNCHANGED <<selected_bot, sx, sy, executed, mutations, injections,
                   target_tps, simulation_data_cache, sync_channel, data, commands,
                   set_bot_trigger, host, sent>>

\* the steps of SimulationRunner::run: handle_commands, then the tick when
\* not paused (UpdateStart, ScanCell, UpdateEnd) or the sleep when paused
\* (UpdatePaused), then send_metadata (SendData)
run ==
    \/ handle_commands
    \/ UpdatePaused
    \/ UpdateStart
    \/ ScanCell
    \/ UpdateEnd
    \/ SendData

\* the host sends commands and calls SimulationHandle::update (TryRefresh)
NextRunner ==
    \/ SendCmd
    \/ TryRefresh
    \/ handle_commands
    \/ UpdatePaused
    \/ UpdateStart
    \/ ScanCell
    \/ UpdateEnd
    \/ SendData

SpecRunner == InitRunner /\ [][NextRunner]_vars

\* the runner's thread keeps running, and the host calls update every frame;
\* every step of run changes the position of the thread, and every update
\* that receives changes the metadata channel
SpecRunnerFair ==
    SpecRunner /\ WF_<<pc, sx, sy>>(run) /\ WF_sync_channel(TryRefresh)

\* ticks completed since the last command was applied
TicksSince == iterations - applied_at

\* the tick bound of the model stops an unpaused runner at the call of update
TickBound == pc = "update" /\ ~paused /\ iterations = MaxIter

-----------------------------------------------------------------------------
(* Properties *)

Cells == {map[c[1]][c[2]] : c \in Coords}

\* the gene executed by the last update
LastGene == current_instruction(last.pre)

\* the cell now stored where the last updated bot was written
LastWritten == map[last.post.x][last.post.y]

\* the cell now stored at the coordinate the last updated bot faced
LastFaced == map[last.looking[1]][last.looking[2]]

\* the last update executed MakeChild
LastMakeChild == last.ran /\ LastGene.instruction = "MakeChild"

\* C1: in one tick no bot executes more than one instruction, and when the
\* scan is over every bot that was alive when the tick started has executed
\* exactly one.
C1_OneInstructionPerTick ==
    \A c \in Coords :
        /\ executed[c[1]][c[2]].count <= 1
        /\ (pc = "done" /\ executed[c[1]][c[2]].started)
              => executed[c[1]][c[2]].count = 1

\* C2: no cell is alive and empty at once, so every cell is empty, alive or
\* dead-but-occupied.
C2_ThreeStates == \A cell \in Cells : ~(cell.alive /\ cell.empty)

C2_Witness ==
    /\ iterations >= 1
    /\ \E cell \in Cells : cell.alive /\ ~cell.empty
    /\ \E cell \in Cells : is_dead(cell)
    /\ \E cell \in Cells : cell.empty /\ ~cell.alive /\ cell.energy # 0

\* C3: every empty cell has energy 0 and the default genome.
C3_EmptyCellIsBlank ==
    \A cell \in Cells :
        cell.empty => cell.energy = 0 /\ cell.genome = BotDefault.genome

\* C4: the instruction pointer of every cell is below the genome length.
C4_PointerInGenome ==
    \A cell \in Cells : cell.current_instruction \in GeneIndex

C4_Witness ==
    /\ last.ran
    /\ last.next = GENOME_LENGTH
    /\ LastWritten = last.post
    /\ last.post.current_instruction = 0

\* C5: a computed next pointer >= N is stored modulo N.
C5_PointerWrapsModulo ==
    (last.ran /\ last.next >= GENOME_LENGTH)
        => /\ last.post.current_instruction = last.next % GENOME_LENGTH
           /\ last.post.current_instruction \in GeneIndex

\* C6: an update that ends with energy < 0 or age above the maximum writes a
\* dead-but-occupied cell, with the energy kept, at the bot's coordinate.
C6_DyingBotBecomesCorpse ==
    (last.ran /\ (last.post.energy < 0 \/ last.post.age > CELL_MAX_AGE))
        => /\ LastWritten = last.post
           /\ ~last.post.alive
           /\ ~last.post.empty

\* C7, as claimed: the update that makes the energy negative leaves the bot
\* alive.
C7_DeathIsDeferred ==
    (last.ran /\ last.pre.energy >= 0 /\ last.post.energy < 0) => last.post.alive

\* C7, amended: the update that leaves the energy negative marks the bot dead
\* itself, and the cell it writes is dead-but-occupied.
C7_DiesInSameUpdate ==
    (last.ran /\ last.post.energy < 0)
        => /\ ~last.post.alive
           /\ ~last.post.empty
           /\ LastWritten = last.post

C7_Witness ==
    /\ last.ran
    /\ last.pre.energy >= 0
    /\ last.post.energy < 0
    /\ is_dead(LastWritten)

\* C8: a bot that is alive after an update has age <= the maximum age.
C8_AliveWithinMaxAge ==
    (last.ran /\ last.post.alive) => last.post.age <= CELL_MAX_AGE

\* the condition under which C9 says MakeChild is refused
C9_Condition ==
    /\ last.pre.energy < REPRODUCTION_REQUIRED_ENERGY
    /\ ~last.front_pre.empty

C10_Offspring ==
    (LastMakeChild /\ ~C9_Condition) =>
        /\ LastFaced.alive
        /\ LastFaced.age = 0
        /\ LastFaced.energy = START_ENERGY
        /\ LastFaced.current_instruction = 0
        /\ <<LastFaced.x, LastFaced.y>> = last.looking
        /\ last.looking = apply_direction(last.pre.direction, last.pre.x, last.pre.y)
        /\ LastFaced.direction = last.pre.direction
        /\ last.post.energy =
              last.pre.energy - REPRODUCTION_REQUIRED_ENERGY - NOOP_COST
        /\ last.post.current_instruction = LastGene.branch

C10_Witness ==
    /\ LastMakeChild
    /\ last.pre.energy >= REPRODUCTION_REQUIRED_ENERGY
    /\ ~last.front_pre.empty
    /\ LastFaced.alive
    /\ LastFaced.energy = START_ENERGY
    /\ last.post.alive

\* the last update was a MakeChild that wrote an offspring over a
\* dead-but-occupied cell
LastChildOnCorpse == LastMakeChild /\ last.child /\ is_dead(last.front_pre)

\* C11, as claimed: an offspring written over a dead-but-occupied cell
\* overwrites it and has the start energy plus the energy of that cell.
C11_AbsorbsCorpseEnergy ==
    LastChildOnCorpse =>
        /\ LastFaced = last.front_post
        /\ LastFaced.alive
        /\ LastFaced.energy = START_ENERGY + last.front_pre.energy

\* C11, amended: an offspring written over a dead-but-occupied cell
\* overwrites it and has exactly the start energy; the energy of the
\* overwritten cell goes to nobody.
C11_OverwritesCorpse ==
    LastChildOnCorpse =>
        /\ LastFaced = last.front_post
        /\ LastFaced.alive
        /\ ~LastFaced.empty
        /\ LastFaced.age = 0
        /\ LastFaced.energy = START_ENERGY
        /\ last.post.energy =
              last.pre.energy - REPRODUCTION_REQUIRED_ENERGY - NOOP_COST

C11_Witness ==
    /\ LastChildOnCorpse
    /\ last.front_pre.energy # 0
    /\ LastFaced.alive
    /\ LastFaced.energy = START_ENERGY

\* C12: in every step of a run without host commands, a dead-but-occupied
\* cell stays as it is (coordinate, flags, energy, every field) unless the
\* step is the update of a bot that faces it and executes RecycleDeadCell or
\* MakeChild.
C12_CorpseStays ==
    [][\A c \in Coords :
          LET cell == map[c[1]][c[2]]
          IN is_dead(cell) =>
                \/ map'[c[1]][c[2]] = cell
                \/ /\ last'.ran
                   /\ last'.looking = c
                   /\ last'.front_pre = cell
                   /\ current_instruction(last'.pre).instruction
                         \in {"RecycleDeadCell", "MakeChild"}]_vars

\* a corpse was faced by an attacker that could pay the attack, and by the
\* end of a later scan step it is still what it was
C12_Witness ==
    /\ last.ran
    /\ LastGene.instruction = "AttackCell"
    /\ last.pre.energy >= ATTACK_REQUIRED_ENERGY
    /\ is_dead(last.front_pre)
    /\ last.front_pre.energy # 0
    /\ LastFaced = last.front_pre
    /\ <<LastFaced.x, LastFaced.y>> = last.looking

\* the last update executed GiveEnergy
LastGiveEnergy == last.ran /\ LastGene.instruction = "GiveEnergy"

\* the amount C13 says is transferred: gene.energy, at least 0 and at most
\* the energy of the giver
C13_Amount ==
    IF LastGene.energy < 0 THEN 0
    ELSE IF LastGene.energy > last.pre.energy THEN last.pre.energy
    ELSE LastGene.energy

LastAttackCell == last.ran /\ LastGene.instruction = "AttackCell"

\* the amount C14 says is taken: the energy of the faced cell, at most the
\* attack amount
C14_Taken ==
    IF last.front_pre.energy <= ATTACK_ENERGY
    THEN last.front_pre.energy
    ELSE ATTACK_ENERGY

LastMoveForwards == last.ran /\ LastGene.instruction = "MoveForwards"

\* the cell now stored where the last updated bot was before its update
LastLeft == map[last.pre.x][last.pre.y]

\* C15: MoveForwards facing an empty cell puts the bot at the faced
\* coordinate, leaves an empty cell at the coordinate it came from and costs
\* the movement cost; facing a cell that is not empty it leaves the bot where
\* it was, the faced cell as it was, and costs no movement cost.
C15_MoveForwards ==
    LastMoveForwards =>
        IF last.front_pre.empty
        THEN /\ <<last.post.x, last.post.y>> = last.looking
             /\ <<last.post.x, last.post.y>> # <<last.pre.x, last.pre.y>>
             /\ LastFaced = last.post
             /\ LastLeft = new_empty(last.pre.x, last.pre.y)
             /\ last.post.energy = last.pre.energy - MOVEMENT_COST - NOOP_COST
        ELSE /\ <<last.post.x, last.post.y>> = <<last.pre.x, last.pre.y>>
             /\ LastWritten = last.post
             /\ LastLeft = last.post
             /\ LastFaced = last.front_pre
             /\ last.post.energy = last.pre.energy - NOOP_COST

C15_Witness ==
    /\ LastMoveForwards
    /\ last.front_pre.empty
    /\ LastFaced = last.post
    /\ LastFaced.alive
    /\ LastLeft.empty
    /\ \E cell \in Cells : is_dead(cell)

\* the last update executed RecycleDeadCell
LastRecycleDeadCell == last.ran /\ LastGene.instruction = "RecycleDeadCell"

\* C16: RecycleDeadCell facing a dead-but-occupied cell adds the whole energy
\* of that cell to the bot and sets the cell's empty flag, so the cell is no
\* longer dead-but-occupied and a later recycle of it gains nothing; facing
\* an alive or an empty cell it changes neither cell.
C16_RecycleDeadCell ==
    LastRecycleDeadCell =>
        IF ~last.front_pre.alive /\ ~last.front_pre.empty
        THEN /\ last.post.energy =
                   last.pre.energy + last.front_pre.energy - NOOP_COST
             /\ last.front_post = [last.front_pre EXCEPT !.empty = TRUE]
             /\ LastFaced = last.front_post
             /\ LastFaced.empty
             /\ ~LastFaced.alive
        ELSE /\ last.post.energy = last.pre.energy - NOOP_COST
             /\ last.front_post = last.front_pre
             /\ LastFaced = last.front_pre

\* a second recycle: the faced cell is empty and still carries the energy
\* of the corpse that was recycled there
C16_Witness ==
    /\ LastRecycleDeadCell
    /\ last.front_pre.empty
    /\ last.front_pre.energy # 0
    /\ LastFaced = last.front_pre
    /\ last.post.energy = last.pre.energy - NOOP_COST

\* the last update executed CheckIfFacingRelative
LastCheckIfFacingRelative ==
    last.ran /\ LastGene.instruction = "CheckIfFacingRelative"

\* the faced cell had, at every index, the opcode the bot has at that index
C17_SameOpcodes ==
    \A i \in GeneIndex :
        last.front_pre.genome[i].instruction = last.pre.genome[i].instruction

\* C17: CheckIfFacingRelative goes to branch if the faced cell is alive and
\* has the bot's opcode at every genome index, whatever the other gene
\* fields; it goes to branch_alt if the faced cell is not alive or one opcode
\* differs.  It changes no cell.
C17_CheckIfFacingRelative ==
    LastCheckIfFacingRelative =>
        /\ last.next = IF last.front_pre.alive /\ C17_SameOpcodes
                       THEN LastGene.branch
                       ELSE LastGene.branch_alt
        /\ last.post.current_instruction = last.next
        /\ LastFaced = last.front_pre

\* the faced cell is alive and has the same opcodes in genes that differ in
\* the other fields: branch is taken
C17_Witness ==
    /\ LastCheckIfFacingRelative
    /\ last.front_pre.alive
    /\ C17_SameOpcodes
    /\ last.front_pre.genome # last.pre.genome
    /\ LastGene.branch # LastGene.branch_alt
    /\ last.post.current_instruction = LastGene.branch

\* the last update was one of the no-op cases of C18
C18_NoOp ==
    /\ last.ran
    /\ \/ LastGene.instruction = "MoveForwards" /\ ~last.front_pre.empty
       \/ /\ LastGene.instruction = "AttackCell"
          /\ (last.pre.energy < ATTACK_REQUIRED_ENERGY \/ ~last.front_pre.alive)
       \/ LastGene.instruction = "GiveEnergy" /\ ~last.front_pre.alive
       \/ /\ LastGene.instruction = "RecycleDeadCell"
          /\ (last.front_pre.alive \/ last.front_pre.empty)

\* the last update was a refused MakeChild
C18_Refused == LastMakeChild /\ C9_Condition

\* the pointer C18 says the last update leaves
C18_Pointer ==
    IF C18_Refused
    THEN LastGene.branch_alt
    ELSE (last.pre.current_instruction + 1) % GENOME_LENGTH

\* C18, as claimed: a no-op case or a refused MakeChild leaves the faced cell
\* as it was and changes, of the bot, the pointer, the energy (idle cost)
\* and the age (+1) and nothing else.
C18_OnlyIdleCostAndAge ==
    (C18_NoOp \/ C18_Refused) =>
        /\ LastFaced = last.front_pre
        /\ LastWritten = last.post
        /\ last.post = [last.pre EXCEPT !.current_instruction = C18_Pointer,
                                        !.energy = @ - NOOP_COST,
                                        !.age = @ + 1]

\* C18, amended: a no-op case or a refused MakeChild leaves the faced cell as
\* it was and changes, of the bot, the pointer, the energy (idle cost), the
\* age (+1) and, when the idle cost takes the energy below 0 or the age was
\* above the maximum, the alive flag; position, direction, genome and color
\* are kept.
C18_NoOpFrame ==
    (C18_NoOp \/ C18_Refused) =>
        /\ LastFaced = last.front_pre
        /\ LastWritten = last.post
        /\ last.post =
              [last.pre EXCEPT
                 !.current_instruction = C18_Pointer,
                 !.energy = @ - NOOP_COST,
                 !.age = @ + 1,
                 !.alive = ~(last.pre.age > CELL_MAX_AGE
                               \/ last.pre.energy - NOOP_COST < 0)]

\* a no-op update that kills the bot: the idle cost takes its energy below 0
C18_Witness ==
    /\ C18_NoOp
    /\ LastFaced = last.front_pre
    /\ last.pre.energy >= 0
    /\ last.post.energy = last.pre.energy - NOOP_COST
    /\ last.post.energy < 0
    /\ is_dead(LastWritten)

\* the energy the opcode of the last update gives to (or takes from) the
\* bot, by the opcode table: the idle cost is not part of it
C19_OpcodeEnergy ==
    LET op == LastGene.instruction
        front == last.front_pre
    IN CASE op \in {"TurnLeft", "TurnRight"} -> 0 - TURN_COST
         [] op = "MoveForwards" -> IF front.empty THEN 0 - MOVEMENT_COST ELSE 0
         [] op = "Photosynthesis" -> PHOTOSYNTHESIS_ENERGY
         [] op = "GiveEnergy" -> IF front.alive THEN 0 - C13_Amount ELSE 0
         [] op = "AttackCell" ->
              IF last.pre.energy >= ATTACK_REQUIRED_ENERGY /\ front.alive
              THEN C14_Taken - ATTACK_REQUIRED_ENERGY ELSE 0
         [] op = "RecycleDeadCell" ->
              IF ~front.alive /\ ~front.empty THEN front.energy ELSE 0
         [] op = "MakeChild" ->
              IF C9_Condition THEN 0 ELSE 0 - REPRODUCTION_REQUIRED_ENERGY
         [] OTHER -> 0

\* C19: every step of the scan that updates an alive bot charges it the idle
\* cost once, on top of what its opcode gives or takes, and adds 1 to its
\* age; a step of the scan on a cell that is not alive leaves the cell and
\* the whole grid as they are.
C19_IdleCostAndAge ==
    [][pc = "scan" =>
          LET bot0 == map[sx][sy]
          IN /\ last'.pre = bot0
             /\ last'.ran = bot0.alive
             /\ IF bot0.alive
                THEN /\ last'.post.energy =
                           bot0.energy + C19_OpcodeEnergy' - NOOP_COST
                     /\ last'.post.age = bot0.age + 1
                ELSE /\ last'.post = bot0
                     /\ map' = map]_vars

\* the scan has passed over a corpse that had been updated once while alive:
\* it is still the cell it was
C19_Witness ==
    /\ ~last.ran
    /\ is_dead(last.pre)
    /\ last.pre.age = 1
    /\ last.pre.energy = START_ENERGY - REPRODUCTION_REQUIRED_ENERGY - NOOP_COST
    /\ last.post = last.pre
    /\ LastWritten = last.pre
    /\ iterations >= 1

\* one toroidal step from (x, y) in direction d, by modular arithmetic
C20_Step(d, x, y) ==
    CASE d = "Left"  -> <<(x + Width - 1) % Width, y>>
      [] d = "Right" -> <<(x + 1) % Width, y>>
      [] d = "Up"    -> <<x, (y + Height - 1) % Height>>
      [] d = "Down"  -> <<x, (y + 1) % Height>>

\* C20: for every coordinate of the grid and every direction,
\* apply_direction gives the coordinate one toroidal step away, which is a
\* coordinate of the grid (Left at x = 0 gives width - 1, Right at
\* x = width - 1 gives 0, Up at y = 0 gives height - 1, Down at
\* y = height - 1 gives 0); every update is made by a bot whose x, y are a
\* coordinate of the grid, so the cell it faces is a cell of the grid.
C20_ApplyDirection ==
    /\ \A x \in Xs, y \in Ys, d \in Direction :
          /\ apply_direction(d, x, y) = C20_Step(d, x, y)
          /\ apply_direction(d, x, y) \in Coords
    /\ apply_direction("Left", 0, 0)[1] = Width - 1
    /\ apply_direction("Right", Width - 1, 0)[1] = 0
    /\ apply_direction("Up", 0, 0)[2] = Height - 1
    /\ apply_direction("Down", 0, Height - 1)[2] = 0
    /\ \A cell \in Cells : <<cell.x, cell.y>> \in Coords
    /\ last.ran =>
          /\ <<last.pre.x, last.pre.y>> \in Coords
          /\ last.looking = C20_Step(last.pre.direction, last.pre.x, last.pre.y)
          /\ last.looking \in Coords

\* a bot at the right border facing Right moved through the wrap to x = 0
C20_Witness ==
    /\ LastMoveForwards
    /\ last.pre.direction = "Right"
    /\ last.pre.x = Width - 1
    /\ last.front_pre.empty
    /\ last.looking = <<0, last.pre.y>>
    /\ LastFaced = last.post
    /\ last.post.x = 0

\* the cycle Left -> Down -> Right -> Up -> Left of C21
C21_Cycle == [d \in Direction |->
                 CASE d = "Left"  -> "Down"
                   [] d = "Down"  -> "Right"
                   [] d = "Right" -> "Up"
                   [] d = "Up"    -> "Left"]

\* the last update executed TurnLeft or TurnRight
LastTurn == last.ran /\ LastGene.instruction \in {"TurnLeft", "TurnRight"}

\* C21: left() is the cycle Left -> Down -> Right -> Up -> Left, right() is
\* its inverse, four applications of either give the direction back; TurnLeft
\* and TurnRight turn the bot by left() and right(), cost the turn cost and
\* leave the bot at its coordinate and the faced cell as it was.
C21_Rotation ==
    /\ \A d \in Direction :
          /\ left(d) = C21_Cycle[d]
          /\ right(C21_Cycle[d]) = d
          /\ right(left(d)) = d
          /\ left(right(d)) = d
          /\ left(left(left(left(d)))) = d
          /\ right(right(right(right(d)))) = d
    /\ LastTurn =>
          /\ last.post.direction =
                IF LastGene.instruction = "TurnLeft"
                THEN C21_Cycle[last.pre.direction]
                ELSE CHOOSE d \in Direction : C21_Cycle[d] = last.pre.direction
          /\ last.post.energy = last.pre.energy - TURN_COST - NOOP_COST
          /\ <<last.post.x, last.post.y>> = <<last.pre.x, last.pre.y>>
          /\ LastWritten = last.post
          /\ LastFaced = last.front_pre

C21_Witness ==
    /\ LastTurn
    /\ LastGene.instruction = "TurnLeft"
    /\ last.pre.direction = "Left"
    /\ last.post.direction = "Down"
    /\ LastWritten = last.post
    /\ <<LastWritten.x, LastWritten.y>> = <<last.pre.x, last.pre.y>>

\* the SimulationData of the simulation as it is now
C22_Now == SimulationData(iterations, paused, map, selected_bot, target_tps)

C24_MalformedPaste ==
    /\ injections' = injections + 1
    /\ Len(set_bot_trigger') = Len(set_bot_trigger)

\* C24: importing malformed cell data terminates neither the host nor the
\* engine: after the refused import the host still runs, and the grid and
\* everything else of the simulation are as before.
C24_MalformedImportRefused ==
    [][C24_MalformedPaste =>
          /\ host' = "running"
          /\ map' = map
          /\ UNCHANGED <<iterations, paused, pc, sx, sy>>]_vars

\* cell visits the running scan still has to make
C25_Remaining == (Width - sx) * Height - sy

\* the visit of the cell under the scan can be made: the process runs and
\* the update of that cell has an outcome
C25_CanVisit ==
    /\ host = "running"
    /\ sx \in Xs /\ sy \in Ys
    /\ \E rnd \in DrawsFor(MapGet(map, sx, sy), map) :
          BotUpdate(MapGet(map, sx, sy), map, rnd).bot.x \in Xs

C26_Taken == ATTACK_ENERGY

\* the left cell's energy after its update: 5 - entry cost + taken - idle cost
C26_Left == 500 - ATTACK_REQUIRED_ENERGY + C26_Taken - NOOP_COST

\* C26, as claimed: when the first tick over the two cells has completed, the
\* left cell's energy is 5 - entry cost + attack amount - idle cost and the
\* right cell's energy is 10 - attack amount.
C26_AfterOneTick ==
    (pc = "done" /\ iterations = 0) =>
        /\ map[0][0].energy = C26_Left
        /\ map[1][0].energy = 1000 - C26_Taken

\* C26, amended: these are the energies right after the left cell's update.
\* The right cell is alive and is updated later in the same tick, where it pays
\* the idle cost too and runs its own instruction: if that is Noop, the tick
\* ends with left energy 5 - entry cost + attack amount - idle cost and right
\* energy 10 - attack amount - idle cost.
C26_AttackThenOwnUpdate ==
    /\ (pc = "scan" /\ iterations = 0 /\ sx = 0 /\ sy = 1) =>
          /\ map[0][0].energy = C26_Left
          /\ map[1][0].energy = 1000 - C26_Taken
          /\ map[1][0].alive
    /\ (pc = "done" /\ iterations = 0 /\ executed[1][0].count = 1
          /\ map[1][0].genome[0].instruction = "Noop") =>
          /\ map[0][0].energy = C26_Left
          /\ map[1][0].energy = 1000 - C26_Taken - NOOP_COST

\* the first tick has completed and the right cell ran Noop in it
C26_Witness ==
    /\ pc = "done"
    /\ iterations = 0
    /\ executed[1][0].count = 1
    /\ executed[0][0].count = 1
    /\ map[1][0].genome[0].instruction = "Noop"
    /\ map[1][0].energy = 1000 - C26_Taken - NOOP_COST

\* the coordinate the scan visits after (x, y): y ascending in the inner
\* loop, x ascending in the outer loop
C27_Successor(x, y) == IF y + 1 < Height THEN <<x, y + 1>> ELSE <<x + 1, 0>>

\* C27: a scan starts at (0, 0); each visit updates the cell at the scan's
\* coordinate and moves the scan to the next coordinate in the order x outer,
\* y inner, and the visit of the last coordinate ends the scan, so that every
\* coordinate is visited exactly once; the iteration counter goes up by
\* exactly 1 when the scan has ended, and apart from that only a reset,
\* received at the top of the loop, changes it, to 0.
C27_ScanOrderAndCounter ==
    [][/\ pc # "scan" /\ pc' = "scan" => sx' = 0 /\ sy' = 0 /\ pc = "update"
       /\ pc = "scan" /\ (<<sx, sy, pc>>' # <<sx, sy, pc>> \/ map' # map) =>
             /\ last'.pre = MapGet(map, sx, sy)
             /\ IF <<sx, sy>> = <<Width - 1, Height - 1>>
                THEN pc' = "done" /\ sx' = sx /\ sy' = sy
                ELSE pc' = "scan" /\ <<sx', sy'>> = C27_Successor(sx, sy)
       /\ pc = "done" /\ pc' # "done" => iterations' = iterations + 1
       /\ iterations' # iterations =>
             \/ pc = "done" /\ pc' = "send" /\ iterations' = iterations + 1
             \/ pc = "idle" /\ pc' = "update" /\ iterations' = 0]_vars

\* a reset has set the counter to 0 after a completed tick: the cached
\* SimulationData still carries the tick
C27_Witness ==
    /\ iterations = 0
    /\ simulation_data_cache.iterations = 1
    /\ pc = "update"

\* C28: the update is in place. The update of the cell under the scan reads
\* the bot and the cell it faces from the grid as the earlier visits of this
\* tick have left it, and what it does to the faced cell is written to that
\* grid: a bot B scanned after a bot A it faces sees and changes A's
\* post-update state, and no copy from the start of the tick is consulted.
C28_InPlace ==
    [][pc = "scan" =>
          /\ last'.pre = map[sx][sy]
          /\ last'.front_pre = map[last'.looking[1]][last'.looking[2]]
          /\ map'[last'.looking[1]][last'.looking[2]] =
                IF <<last'.post.x, last'.post.y>> = last'.looking
                THEN last'.post
                ELSE last'.front_post]_vars

\* B has attacked an alive A that had already been updated in this tick (a
\* bot alive since the start of the run has age iterations + 1 only after its
\* update of this tick), and A's energy after its own update was lowered
C28_Witness ==
    /\ pc \in {"scan", "done"}
    /\ LastAttackCell
    /\ last.front_pre.alive
    /\ last.front_pre.age = iterations + 1
    /\ executed[last.looking[1]][last.looking[2]].started
    /\ executed[last.looking[1]][last.looking[2]].count = 1
    /\ last.front_post.energy < last.front_pre.energy
    /\ map[last.looking[1]][last.looking[2]] = last.front_post

\* C29: a scan step on the cell at the selected coordinate sets the selected
\* coordinate to where the bot is after its update and the selected bot to the
\* bot after its update, and no other scan step touches the selection; so
\* when a tick has completed with a coordinate selected, the selected bot
\* exists and its x, y are the selected coordinate.
C29_SelectionFollows ==
    [][/\ pc = "scan" /\ <<sx, sy, pc>>' # <<sx, sy, pc>> =>
             IF selected_bot_coordinates # None /\ selected_bot_coordinates = <<sx, sy>>
             THEN /\ selected_bot' = <<last'.post>>
                  /\ selected_bot_coordinates' = <<last'.post.x, last'.post.y>>
                  /\ map'[last'.post.x][last'.post.y] = selected_bot'[1]
             ELSE UNCHANGED <<selected_bot, selected_bot_coordinates>>
       /\ pc' = "done" /\ selected_bot_coordinates' # None =>
             /\ selected_bot' # NoBot
             /\ <<selected_bot'[1].x, selected_bot'[1].y>> = selected_bot_coordinates'
             /\ selected_bot_coordinates' \in Coords]_vars

\* in the first tick the bot at the selected (0, 0) has moved to (1, 0), and
\* right after that visit the selection is at (1, 0) and holds the bot
C29_Witness ==
    /\ pc = "scan" /\ sx = 0 /\ sy = 1
    /\ iterations = 0
    /\ selected_bot_coordinates # None
    /\ selected_bot_coordinates = <<1, 0>>
    /\ selected_bot # NoBot
    /\ selected_bot[1].alive
    /\ selected_bot[1] = map[1][0]
    /\ map[0][0].empty

\* the fields of a gene
C30_Fields == {"instruction", "option", "energy", "branch", "branch_alt"}

\* the genes in which the offspring of the last update differs from its
\* parent, and the fields in which gene i differs
C30_Genes == {i \in GeneIndex : last.front_post.genome[i] # last.pre.genome[i]}

C30_Differing(i) ==
    {f \in C30_Fields : last.front_post.genome[i][f] # last.pre.genome[i][f]}

\* C30: the genome of an offspring differs from its parent's in at most one
\* gene and there in at most one of the five fields; a branch or branch_alt
\* that was resampled is a gene index; and when the mutation roll failed,
\* genome and color are the parent's.
C30_AtMostOneField ==
    last.child =>
        /\ Cardinality(C30_Genes) <= 1
        /\ \A i \in C30_Genes :
              /\ Cardinality(C30_Differing(i)) <= 1
              /\ \A f \in C30_Differing(i) \cap {"branch", "branch_alt"} :
                    last.front_post.genome[i][f] \in GeneIndex
        /\ ~last.roll =>
              /\ last.front_post.genome = last.pre.genome
              /\ last.front_post.color = last.pre.color

\* an offspring was mutated: one gene differs from the parent's, in its
\* branch field, and so does the color
C30_Witness ==
    /\ last.child
    /\ last.roll
    /\ Cardinality(C30_Genes) = 1
    /\ \A i \in C30_Genes : C30_Differing(i) = {"branch"}
    /\ last.front_post.color # last.pre.color

\* C31: for every coordinate of the grid and every direction the faced
\* coordinate is another coordinate; so the bot an update works on and the
\* cell it faces are two cells of the grid, and writing the bot back does not
\* discard what the update did to the faced cell: the faced cell is afterwards
\* what the update made of it, or, when the bot moved onto it, the bot, and
\* then the update had not changed it.
C31_NeverFacesItself ==
    /\ Width >= 2 /\ Height >= 2
    /\ \A x \in Xs, y \in Ys, d \in Direction : apply_direction(d, x, y) # <<x, y>>
    /\ last.ran =>
          /\ last.looking # <<last.pre.x, last.pre.y>>
          /\ IF <<last.post.x, last.post.y>> = last.looking
             THEN LastFaced = last.post /\ last.front_post = last.front_pre
             ELSE /\ LastFaced = last.front_post
                  /\ LastWritten = last.post
                  /\ <<last.post.x, last.post.y>> = <<last.pre.x, last.pre.y>>

\* an update has changed the cell it faces, and the grid holds both the
\* changed cell and the bot written back
C31_Witness ==
    /\ last.ran
    /\ last.front_post # last.front_pre
    /\ LastFaced = last.front_post
    /\ LastWritten = last.post
    /\ last.post # last.pre

\* C32: every cell stored in the grid carries its own coordinate: the cell
\* at (i, j) has x = i and y = j, after generation and reset, at every step
\* of every tick and after every cell the host sets; so the original
\* position the scan takes from the fields of the cell under it is the
\* coordinate of the scan.
C32_FieldsAreCoordinates ==
    /\ \A i \in Xs, j \in Ys : map[i][j].x = i /\ map[i][j].y = j
    /\ pc = "scan" => coordinates(map[sx][sy]) = <<sx, sy>>

\* a tick has completed on a grid with a cell the host has set at (1, 0)
C32_Witness ==
    /\ pc = "send"
    /\ iterations = 1
    /\ injections = 1
    /\ set_bot_trigger = <<>>
    /\ ~map[1][0].alive /\ ~map[1][0].empty /\ map[1][0].energy = 700
    /\ map[1][0].x = 1

\* C33: from a generated grid and without cells set by the host, every alive
\* cell stored in the grid has energy >= 0 at every step; so a GiveEnergy is
\* run by a bot whose energy, the upper bound of the clamp, is not below the
\* lower bound 0, and gives an amount >= 0, and an AttackCell takes an
\* amount >= 0.
C33_AliveEnergyNotNegative ==
    /\ \A cell \in Cells : cell.alive => cell.energy >= 0
    /\ last.ran => last.pre.energy >= 0
    /\ (last.ran /\ last.front_pre.alive) => last.front_pre.energy >= 0
    /\ (last.ran /\ LastGene.instruction = "GiveEnergy") =>
          last.front_post.energy - last.front_pre.energy >= 0
    /\ LastAttackCell => last.front_pre.energy - last.front_post.energy >= 0

\* an attack has taken all the energy of an alive cell, which is left alive
\* with energy 0 in the grid
C33_Witness ==
    /\ LastAttackCell
    /\ last.front_pre.alive
    /\ last.front_pre.energy > 0
    /\ last.front_post.energy = 0
    /\ LastFaced.alive
    /\ LastFaced.energy = 0

\* the last update was a MakeChild by a bot with at least the reproduction
\* threshold that faced an alive bot
C34_FacedAlive ==
    /\ LastMakeChild
    /\ last.pre.energy >= REPRODUCTION_REQUIRED_ENERGY
    /\ last.front_pre.alive

\* the faced coordinate holds the offspring and nothing of the bot that was
\* there: start energy, age 0, pointer 0, the parent's genome and color up to
\* the mutation of one gene, and the parent has paid the threshold and the
\* idle cost and received nothing
C34_OffspringInPlace ==
    /\ last.child
    /\ last.post.current_instruction = WrapPointer(LastGene.branch)
    /\ last.post.energy = last.pre.energy - REPRODUCTION_REQUIRED_ENERGY - NOOP_COST
    /\ LastFaced = last.front_post
    /\ LastFaced.alive
    /\ LastFaced.energy = START_ENERGY
    /\ LastFaced.age = 0
    /\ LastFaced.current_instruction = 0
    /\ Cardinality({i \in GeneIndex : LastFaced.genome[i] # last.pre.genome[i]}) <= 1
    /\ ~last.roll => LastFaced.genome = last.pre.genome /\ LastFaced.color = last.pre.color

\* C34: a MakeChild run with energy >= the threshold while the faced cell is
\* alive is not refused: after the step the faced coordinate holds the
\* offspring, and the genome and energy of the bot that was there are gone;
\* that bot runs no further instruction, since every update is run by the
\* cell the grid holds at the scan's coordinate.
C34_ReplacesAliveBot ==
    [][/\ C34_FacedAlive' => C34_OffspringInPlace'
       /\ pc = "scan" /\ <<sx, sy, pc>>' # <<sx, sy, pc>> => last'.pre = map[sx][sy]]_vars

\* an alive bot with another genome was replaced by the offspring
C34_Witness ==
    /\ C34_FacedAlive
    /\ last.front_pre.genome # last.pre.genome
    /\ LastFaced.genome = last.pre.genome
    /\ LastFaced.energy # last.front_pre.energy

\* the last genes of the genomes generate_map draws bots with
C35_GeneratedLastGenes == {g[GENOME_LENGTH - 1] : g \in GenomePool}

\* C35: the gene mutated at a reproduction has an index below N - 1, so the
\* last gene of an offspring is the last gene of its parent; hence the last
\* gene of every bot in the grid is the last gene of a generated bot, the
\* first of its ancestor line.
C35_LastGeneInherited ==
    /\ last.child =>
          /\ last.front_post.genome[GENOME_LENGTH - 1] =
                last.pre.genome[GENOME_LENGTH - 1]
          /\ LastFaced.genome[GENOME_LENGTH - 1] = last.pre.genome[GENOME_LENGTH - 1]
    /\ \A cell \in Cells :
          cell.genome[GENOME_LENGTH - 1] \in C35_GeneratedLastGenes \cup {GeneDefault}

\* an offspring was mutated in the gene before the last one
C35_Witness ==
    /\ last.child
    /\ last.roll
    /\ last.front_post.genome[GENOME_LENGTH - 2] # last.pre.genome[GENOME_LENGTH - 2]
    /\ LastFaced = last.front_post

\* C36: the thread never waits for the host. The channel holds at most one
\* SimulationData; at the send the thread can always go on, whether the
\* channel has room or not; a send on a full channel changes neither the
\* channel nor the cache; and the cache is rebuilt only in the step that
\* put the old cache on the channel.
C36_NeverWaitsForHost ==
    /\ [](Len(sync_channel) <= 1)
    /\ [](pc = "send" /\ host = "running" => ENABLED SendData)
    /\ [][pc = "send" /\ pc' # "send" =>
             /\ pc' = "idle"
             /\ Len(sync_channel) = 1 =>
                   UNCHANGED <<sync_channel, simulation_data_cache>>]_vars
    /\ [][simulation_data_cache' # simulation_data_cache =>
             /\ pc = "send"
             /\ sync_channel = <<>>
             /\ sync_channel' = <<simulation_data_cache>>]_vars

\* the host has never refreshed: it holds the data it started with, the
\* first SimulationData sent is still in the channel, and the thread has
\* completed its ticks and passed the send with the channel full
C36_Witness ==
    /\ data = NewSimulationData
    /\ sync_channel = <<NewSimulationData>>
    /\ iterations = MaxIter
    /\ pc = "idle"
    /\ simulation_data_cache.iterations < iterations

\* C37: the runner applies the commands in the order the host sent them
\* (what is applied and what still waits is what was sent); a command is
\* applied only by the handle_commands step that opens a loop iteration, one
\* at a time, the oldest first; while not paused at least one tick runs
\* between two applied commands, and exactly one when they are applied in
\* consecutive loop iterations (no iteration in between found the channel
\* empty); and every command sent is applied in the end, unless the runner
\* has stopped at the tick bound of the model
C37_InOrderOnePerIteration ==
    /\ [](applied \o command_rx = sent)
    /\ [][applied' # applied =>
             /\ pc = "idle" /\ pc' = "update"
             /\ applied' = Append(applied, Head(command_rx))
             /\ command_rx' = Tail(command_rx)]_vars
    /\ [][applied' # applied /\ applied # <<>> /\ ~paused =>
             /\ TicksSince >= 1
             /\ ~skipped => TicksSince = 1]_vars
    /\ \A n \in 1 .. MaxSent :
          (Len(sent) >= n) ~> (Len(applied) >= n \/ TickBound)

\* two commands were applied in the order sent, with one tick between them
C37_Witness ==
    /\ sent = << <<"TogglePause">>, <<"SelectCell", 0, 0>> >>
    /\ applied = sent
    /\ applied_at = 1
    /\ selected_bot_coordinates # None
    /\ ~paused

\* the metadata construct_metadata would build now: the engine's current
\* state (grid, iteration counter, pause flag, selection)
CurrentMetadata ==
    SimulationData(iterations, paused, map, selected_bot, target_tps)

\* C38: if from some moment on the simulation is paused and no command
\* waits (the host sends no further command), then, the host calling update
\* again and again, the metadata the host holds is from some moment on the
\* engine's current state, and stays so
C38_SnapshotCatchesUp ==
    <>[](paused /\ command_rx = <<>>) => <>[](data = CurrentMetadata)

\* the simulation ran a tick and was paused again, the host can send no
\* more, and the host holds the state after that tick
C38_Witness ==
    /\ applied = << <<"TogglePause">>, <<"TogglePause">> >>
    /\ command_rx = <<>>
    /\ paused
    /\ iterations = 1
    /\ sync_channel = <<>>
    /\ data = CurrentMetadata
    /\ data.iterations = 1

\* the step at the top of the thread loop, where the commands are received
C39_CommandStep == pc = "idle" /\ pc' = "update"

\* C39: the simulation starts paused; while it is paused no scan runs, and
\* every step of the loop but the receipt of commands leaves the grid, the
\* selection and the iteration counter as they are; a set_cell message that
\* waits is applied by the receipt of commands, paused or not; and the pause
\* flag changes only in the receipt of commands
C39_PausedFrame ==
    /\ paused = TRUE
    /\ [](paused => pc \notin {"scan", "done"})
    /\ [][paused /\ ~C39_CommandStep =>
             UNCHANGED <<map, selected_bot_coordinates, selected_bot, iterations>>]_vars
    /\ [][C39_CommandStep /\ set_bot_trigger # <<>> =>
             LET x == Head(set_bot_trigger)[1]
                 y == Head(set_bot_trigger)[2]
                 bot == Head(set_bot_trigger)[3]
             IN  /\ map'[x][y] = set_coordinates(bot, x, y)
                 /\ set_bot_trigger' = Tail(set_bot_trigger)]_vars
    /\ [][paused' # paused => C39_CommandStep]_vars

\* still paused and before any tick, a loop iteration is over in which the
\* thread received a command, and the cell the host pasted is in the grid
C39_Witness ==
    /\ paused
    /\ iterations = 0
    /\ pc = "idle"
    /\ injections = 1
    /\ set_bot_trigger = <<>>
    /\ \E x \in Xs, bot \in ThreadBots : map[x][0] = set_coordinates(bot, x, 0)
    /\ simulation_data_cache.map = map
    /\ simulation_data_cache.paused

====
